---- MODULE Spec2Model ----
(***************************************************************************)
(* Model of src/pc/main.py (ElementCrawler desktop client): the Element    *)
(* model and its locator selection, the AndroidConnection protocol client  *)
(* and the MainWindow handlers that drive them.                            *)
(*                                                                         *)
(* Python str values are TLA+ strings; Python objects of other types are   *)
(* tagged records (PyStr, PyInt, PyBool, PyNone, PyList, PyDict).          *)
(***************************************************************************)
EXTENDS Integers, Sequences, FiniteSets, TLC

VARIABLES
    elements,       \* MainWindow.elements
    selected_element, \* MainWindow.selected_element: None or an Element
    best,           \* result of Element.get_best_locator, or NoResult
    all_locators,   \* result of MainWindow.get_all_locators, or NoResult
    detail_text,    \* MainWindow.detail_text: the lines of the detail pane
    element_tree,   \* MainWindow.element_tree: its top-level items, in order
    socket,         \* AndroidConnection.socket: None or a socket object
    connected,      \* AndroidConnection.connected
    socks,          \* every socket object created so far: its descriptor state
    pending,        \* requests written on the current socket the agent has not answered
    inbuf,          \* response chunks waiting in the current socket's receive buffer
    nreq,           \* number of requests written so far
    threads,        \* each caller thread inside send_command: its position and locals
    last            \* the last finished call: operation, inputs, I/O done, result

uiVars == <<elements, selected_element, best, all_locators, detail_text, element_tree>>
connVars == <<socket, connected, socks, pending, inbuf, nreq>>
vars == <<elements, selected_element, best, all_locators, detail_text, element_tree,
          socket, connected, socks, pending, inbuf, nreq, threads, last>>

(***************************************************************************)
(* Bounds                                                                  *)
(***************************************************************************)
\* largest center coordinate an Element of the locator model carries
MaxCoord == 1
\* number of socket objects one client creates (connect calls)
MaxSockets == 2
\* number of requests one client writes
MaxRequests == 2
\* number of answers of the agent that arrive while one call waits in its read
MaxReplies == 2
\* number of requests the main window's handlers write
MaxUIRequests == 4
\* number of threads that call send_command on one client
NumThreads == 2
\* largest depth an Element of the tree model carries
MaxDepth == 2
\* number of Elements of a snapshot of the tree model
MaxElements == 3

(***************************************************************************)
(* Python values                                                           *)
(***************************************************************************)
PyNone == [t |-> "none"]
PyStr(s) == [t |-> "str", s |-> s]
PyInt(n) == [t |-> "int", n |-> n]
PyBool(b) == [t |-> "bool", b |-> b]
PyList(items) == [t |-> "list", items |-> items]
\* a dict keeps insertion order: keys[i] maps to vals[i], keys are distinct
PyDict(keys, vals) == [t |-> "dict", keys |-> keys, vals |-> vals]

\* bool(v)
Truthy(v) ==
    CASE v.t = "none" -> FALSE
      [] v.t = "str"  -> v.s # ""
      [] v.t = "int"  -> v.n # 0
      [] v.t = "bool" -> v.b
      [] v.t = "list" -> v.items # <<>>
      [] v.t = "dict" -> v.keys # <<>>

Min(a, b) == IF a < b THEN a ELSE b

Digits == "0123456789"

RECURSIVE NatToStr(_)
NatToStr(n) ==
    IF n < 10 THEN SubSeq(Digits, n + 1, n + 1)
    ELSE NatToStr(n \div 10) \o SubSeq(Digits, (n % 10) + 1, (n % 10) + 1)

\* str(n) for an int
IntToStr(n) == IF n < 0 THEN "-" \o NatToStr(0 - n) ELSE NatToStr(n)

\* format(v) as an f-string field {v} renders it (scalars only)
Format(v) ==
    CASE v.t = "none" -> "None"
      [] v.t = "str"  -> v.s
      [] v.t = "int"  -> IntToStr(v.n)
      [] v.t = "bool" -> IF v.b THEN "True" ELSE "False"

(***************************************************************************)
(* Element and its locators                                                *)
(***************************************************************************)
\* a function not applied yet, and the value it returned
NoResult == [done |-> FALSE]
Result(v) == [done |-> TRUE, val |-> v]

\* the dict {}
EmptyDict == [empty |-> TRUE]

\* v != "null"
NotNullLiteral(v) == ~(v.t = "str" /\ v.s = "null")

\* a presence test that forgets the "null" placeholder
Present_Truthy(v) == Truthy(v)

\* the test `field and field != "null"` of get_best_locator, get_all_locators
\* and click_test
Present(v) == Truthy(v) /\ NotNullLiteral(v)

CoordsValue(e) == "(" \o Format(e.x) \o ", " \o Format(e.y) \o ")"

IdCode(v) == "driver.find_element(AppiumBy.ID, \"" \o Format(v) \o "\")"
TextCode(v) ==
    "driver.find_element(AppiumBy.ANDROID_UIAUTOMATOR, \"new UiSelector().text(\\\""
        \o Format(v) \o "\\\")\")"
DescCode(v) ==
    "driver.find_element(AppiumBy.ANDROID_UIAUTOMATOR, \"new UiSelector().description(\\\""
        \o Format(v) \o "\\\")\")"
ClassCode(v) == "driver.find_element(AppiumBy.CLASS_NAME, \"" \o Format(v) \o "\")"
TapCode(e) == "driver.tap([" \o CoordsValue(e) \o "])"

\* one entry of the list get_best_locator builds
PLoc(type, value, priority, code) ==
    [type |-> type, value |-> value, priority |-> priority, code |-> code]

\* one entry of the list get_all_locators builds (no priority key)
Loc(type, value, code) == [type |-> type, value |-> value, code |-> code]

\* an append that is not guarded by its test
AppendIf_Always(cond, seq, item) == Append(seq, item)

\* `if cond: locators.append(item)`
AppendIf(cond, seq, item) == IF cond THEN Append(seq, item) ELSE seq

\* insert x into the sorted sequence s after every entry whose key is <= x's
RECURSIVE InsertByPriority(_, _)
InsertByPriority(s, x) ==
    IF s = <<>> THEN <<x>>
    ELSE IF Head(s).priority <= x.priority
         THEN <<Head(s)>> \o InsertByPriority(Tail(s), x)
         ELSE <<x>> \o s

\* a sort with reverse=True
RECURSIVE SortByPriority_Descending(_)
SortByPriority_Descending(s) ==
    IF s = <<>> THEN <<>>
    ELSE LET rest == SortByPriority_Descending(Tail(s))
         IN  IF rest # <<>> /\ rest[1].priority > Head(s).priority
             THEN <<rest[1]>> \o SortByPriority_Descending(<<Head(s)>> \o Tail(rest))
             ELSE <<Head(s)>> \o rest

\* locators.sort(key=lambda x: x['priority']): a stable ascending sort
RECURSIVE SortByPriority(_)
SortByPriority(s) ==
    IF s = <<>> THEN <<>>
    ELSE InsertByPriority(SortByPriority(SubSeq(s, 1, Len(s) - 1)), s[Len(s)])

BestCandidates(e) ==
    LET l1 == AppendIf(Present(e.resource_id), <<>>,
                  PLoc("resource-id", e.resource_id, 1, IdCode(e.resource_id)))
        l2 == AppendIf(Present(e.text), l1,
                  PLoc("text", e.text, 2, TextCode(e.text)))
        l3 == AppendIf(Present(e.content_desc), l2,
                  PLoc("content-desc", e.content_desc, 3, DescCode(e.content_desc)))
        l4 == AppendIf(Present(e.class_name), l3,
                  PLoc("className", e.class_name, 4, ClassCode(e.class_name)))
    IN  Append(l4, PLoc("coordinates", PyStr(CoordsValue(e)), 5, TapCode(e)))

\* Element.get_best_locator
get_best_locator(e) ==
    LET locators == SortByPriority(BestCandidates(e))
    IN  IF locators # <<>> THEN locators[1] ELSE EmptyDict

\* MainWindow.get_all_locators
get_all_locators(e) ==
    LET l1 == AppendIf(Present(e.resource_id), <<>>,
                  Loc("resource-id", e.resource_id, IdCode(e.resource_id)))
        l2 == AppendIf(Present(e.text), l1,
                  Loc("text", e.text, TextCode(e.text)))
        l3 == AppendIf(Present(e.content_desc), l2,
                  Loc("content-desc", e.content_desc, DescCode(e.content_desc)))
        l4 == AppendIf(Present(e.class_name), l3,
                  Loc("className", e.class_name, ClassCode(e.class_name)))
    IN  Append(l4, Loc("coordinates", PyStr(CoordsValue(e)), TapCode(e)))

(***************************************************************************)
(* json.loads, restricted to null, true, false, integers, strings without  *)
(* escapes, arrays and objects                                             *)
(***************************************************************************)
JsonWs == {" ", "\t", "\n", "\r"}

\* the character of s at position i, "" past the end
Ch(s, i) == IF i >= 1 /\ i <= Len(s) THEN SubSeq(s, i, i) ELSE ""

DigitChars == {"0", "1", "2", "3", "4", "5", "6", "7", "8", "9"}

DigitVal(c) == CHOOSE d \in 0..9 : SubSeq(Digits, d + 1, d + 1) = c

ParseFail == [ok |-> FALSE]
Parsed(v, i) == [ok |-> TRUE, v |-> v, i |-> i]

RECURSIVE SkipWs(_, _)
SkipWs(s, i) == IF Ch(s, i) \in JsonWs THEN SkipWs(s, i + 1) ELSE i

\* position of the closing quote of a string whose body starts at i, 0 if none
RECURSIVE FindQuote(_, _)
FindQuote(s, i) ==
    IF i > Len(s) THEN 0
    ELSE IF Ch(s, i) = "\"" THEN i
    ELSE FindQuote(s, i + 1)

ParseString(s, i) ==
    LET q == FindQuote(s, i)
    IN  IF q = 0 THEN ParseFail ELSE Parsed(PyStr(SubSeq(s, i, q - 1)), q + 1)

\* digits from position i on, accumulated into acc
RECURSIVE ParseDigits(_, _, _)
ParseDigits(s, i, acc) ==
    IF Ch(s, i) \in DigitChars
    THEN ParseDigits(s, i + 1, acc * 10 + DigitVal(Ch(s, i)))
    ELSE [ok |-> TRUE, n |-> acc, i |-> i]

ParseNat(s, i) ==
    IF Ch(s, i) = "0" THEN [ok |-> TRUE, n |-> 0, i |-> i + 1]
    ELSE IF Ch(s, i) \in DigitChars THEN ParseDigits(s, i, 0)
    ELSE [ok |-> FALSE]

ParseNumber(s, i) ==
    LET sgn == IF Ch(s, i) = "-" THEN 0 - 1 ELSE 1
        r   == ParseNat(s, IF Ch(s, i) = "-" THEN i + 1 ELSE i)
    IN  IF r.ok THEN Parsed(PyInt(sgn * r.n), r.i) ELSE ParseFail

ParseLiteral(s, i, word, v) ==
    IF i + Len(word) - 1 <= Len(s) /\ SubSeq(s, i, i + Len(word) - 1) = word
    THEN Parsed(v, i + Len(word))
    ELSE ParseFail

\* index of key k in keys, 0 if absent
RECURSIVE KeyIndex(_, _, _)
KeyIndex(keys, k, i) ==
    IF i > Len(keys) THEN 0
    ELSE IF keys[i] = k THEN i
    ELSE KeyIndex(keys, k, i + 1)

\* d[k] = v
DictSet(d, k, v) ==
    LET idx == KeyIndex(d.keys, k, 1)
    IN  IF idx = 0 THEN PyDict(Append(d.keys, k), Append(d.vals, v))
        ELSE PyDict(d.keys, [d.vals EXCEPT ![idx] = v])

\* a lookup under a name the dict never has
DictGet_Missing(d, k, default) == default

\* d.get(k, default)
DictGet(d, k, default) ==
    LET idx == KeyIndex(d.keys, k, 1)
    IN  IF idx = 0 THEN default ELSE d.vals[idx]

RECURSIVE ParseValue(_, _)
RECURSIVE ParseItems(_, _, _)
RECURSIVE ParseMembers(_, _, _)

\* the item parsed as r joins the items in acc; then "," and more items, or "]"
ItemsAfter(s, acc, r) ==
    IF ~r.ok THEN ParseFail
    ELSE LET j == SkipWs(s, r.i)
         IN  CASE Ch(s, j) = "," -> ParseItems(s, j + 1, Append(acc, r.v))
               [] Ch(s, j) = "]" -> Parsed(PyList(Append(acc, r.v)), j + 1)
               [] OTHER          -> ParseFail

\* the items of an array from position i on, after those in acc
ParseItems(s, i, acc) == ItemsAfter(s, acc, ParseValue(s, i))

\* the value parsed as r is stored under key in the object acc; then "," and
\* more members, or "}"
MemberAfter(s, acc, key, r) ==
    IF ~r.ok THEN ParseFail
    ELSE LET j == SkipWs(s, r.i)
         IN  CASE Ch(s, j) = "," -> ParseMembers(s, j + 1, DictSet(acc, key, r.v))
               [] Ch(s, j) = "}" -> Parsed(DictSet(acc, key, r.v), j + 1)
               [] OTHER          -> ParseFail

\* the key parsed as k, then ":" and its value
MemberColon(s, acc, k) ==
    IF ~k.ok THEN ParseFail
    ELSE LET j == SkipWs(s, k.i)
         IN  IF Ch(s, j) # ":" THEN ParseFail
             ELSE MemberAfter(s, acc, k.v.s, ParseValue(s, j + 1))

\* the members of an object from position i on, after those in acc
ParseMembers(s, i, acc) ==
    LET j == SkipWs(s, i)
    IN  IF Ch(s, j) # "\"" THEN ParseFail
        ELSE MemberColon(s, acc, ParseString(s, j + 1))

\* a JSON value starting at or after position i
ParseValue(s, i) ==
    LET j == SkipWs(s, i)
        k == SkipWs(s, j + 1)
    IN  CASE Ch(s, j) = "n"  -> ParseLiteral(s, j, "null", PyNone)
          [] Ch(s, j) = "t"  -> ParseLiteral(s, j, "true", PyBool(TRUE))
          [] Ch(s, j) = "f"  -> ParseLiteral(s, j, "false", PyBool(FALSE))
          [] Ch(s, j) = "\"" -> ParseString(s, j + 1)
          [] Ch(s, j) = "-" \/ Ch(s, j) \in DigitChars -> ParseNumber(s, j)
          [] Ch(s, j) = "["  -> IF Ch(s, k) = "]" THEN Parsed(PyList(<<>>), k + 1)
                                ELSE ParseItems(s, k, <<>>)
          [] Ch(s, j) = "{"  -> IF Ch(s, k) = "}" THEN Parsed(PyDict(<<>>, <<>>), k + 1)
                                ELSE ParseMembers(s, k, PyDict(<<>>, <<>>))
          [] OTHER           -> ParseFail

(***************************************************************************)
(* Exceptions: the outcome of a try body is a value or a raised exception  *)
(***************************************************************************)
Ok(v) == [ok |-> TRUE, val |-> v]
Raise(type, msg) == [ok |-> FALSE, exc |-> [type |-> type, msg |-> msg]]

\* the value parsed as r must be followed by nothing but blanks
LoadsResult(s, r) ==
    IF r.ok /\ SkipWs(s, r.i) = Len(s) + 1
    THEN Ok(r.v)
    ELSE Raise("JSONDecodeError", "Expecting value")

\* json.loads(s)
json_loads(s) == LoadsResult(s, ParseValue(s, 1))

(***************************************************************************)
(* Strings and bytes                                                       *)
(***************************************************************************)
\* the characters str.strip() removes
PyWs == {" ", "\t", "\n", "\r"}

RECURSIVE LStrip(_)
LStrip(s) == IF s # "" /\ Head(s) \in PyWs THEN LStrip(Tail(s)) ELSE s

RECURSIVE RStrip(_)
RStrip(s) ==
    IF s # "" /\ SubSeq(s, Len(s), Len(s)) \in PyWs
    THEN RStrip(SubSeq(s, 1, Len(s) - 1))
    ELSE s

\* s.rstrip()
Strip_Trailing(s) == RStrip(s)

\* s.strip()
Strip(s) == LStrip(RStrip(s))

StartsWith(s, p) == Len(s) >= Len(p) /\ SubSeq(s, 1, Len(p)) = p

\* a bytes object: valid UTF-8 carrying text, or a sequence that is not UTF-8
Bytes(text) == [valid |-> TRUE, text |-> text]
BadBytes == [valid |-> FALSE, text |-> ""]

\* str.encode() of text without surrogates
Encode(s) == Ok(Bytes(s))

\* bytes.decode()
Decode(b) ==
    IF b.valid THEN Ok(b.text)
    ELSE Raise("UnicodeDecodeError",
               "'utf-8' codec can't decode byte 0xff in position 0: invalid start byte")

\* b1 + b2
BytesConcat(b1, b2) ==
    IF b1.valid /\ b2.valid THEN Bytes(b1.text \o b2.text) ELSE BadBytes

(***************************************************************************)
(* AndroidConnection                                                       *)
(***************************************************************************)
None == 0
NoExc == [type |-> "", msg |-> ""]

\* the classes `except Exception` catches, among those the model raises
ExceptionClasses ==
    {"OSError", "BrokenPipeError", "ConnectionResetError", "timeout",
     "UnicodeDecodeError", "AttributeError", "JSONDecodeError", "TypeError",
     "ConnectionRefusedError"}

\* the session status of the spec: Open or Closed
IsOpen == connected /\ socket # None

NotConnectedMsg == "ERROR: Not connected"

\* send_command testing the handle only
NotConnected_HandleOnly(conn, sk) == sk = None

\* the guard of send_command: `not self.connected or not self.socket`
NotConnected(conn, sk) == ~conn \/ sk = None

\* socket.sendall(data) on socket object sk under write outcome w
SendAll(sk, fds, w) ==
    IF sk = None
    THEN Raise("AttributeError", "'NoneType' object has no attribute 'sendall'")
    ELSE IF fds[sk] = "closed"
    THEN Raise("OSError", "[Errno 9] Bad file descriptor")
    ELSE IF w = "pipe"
    THEN Raise("BrokenPipeError", "[Errno 32] Broken pipe")
    ELSE Ok(PyNone)

\* all chunks of the receive buffer, joined
RECURSIVE JoinChunks(_)
JoinChunks(buf) ==
    IF buf = <<>> THEN Bytes("")
    ELSE BytesConcat(buf[1].data, JoinChunks(Tail(buf)))

\* socket.settimeout(10); socket.recv(65536) on socket object sk holding buf,
\* under read outcome r when nothing is buffered
Recv(sk, fds, buf, r) ==
    IF sk = None
    THEN Raise("AttributeError", "'NoneType' object has no attribute 'settimeout'")
    ELSE IF fds[sk] = "closed"
    THEN Raise("OSError", "[Errno 9] Bad file descriptor")
    ELSE IF buf # <<>> THEN Ok(JoinChunks(buf))
    ELSE CASE r = "timeout" -> Raise("timeout", "timed out")
           [] r = "reset"   -> Raise("ConnectionResetError",
                                     "[Errno 104] Connection reset by peer")
           [] r = "eof"     -> Ok(Bytes(""))

\* the agent answers the oldest k pending requests, in order, with datas[1..k]
RECURSIVE AgentAnswers(_, _)
AgentAnswers(pend, datas) ==
    IF datas = <<>> THEN <<>>
    ELSE <<[req |-> Head(pend), data |-> Head(datas)]>>
            \o AgentAnswers(Tail(pend), Tail(datas))

\* a handler written as `except OSError`
CatchesException_OSError(exc) ==
    exc.type \in {"OSError", "BrokenPipeError", "ConnectionResetError", "timeout",
                  "ConnectionRefusedError"}

\* `except Exception as e` of send_command
CatchesException(exc) == exc.type \in ExceptionClasses

\* the f-string of the handler of send_command
ErrorString(exc) == "ERROR: " \o exc.msg

\* what one call of send_command does: value returned or exception escaping,
\* exception caught, bytes written, number of reads, chunks received, and the
\* channel it leaves
CallResult(res, caught, wrote, reads, recv, pend, buf, n) ==
    [res |-> res, caught |-> caught, wrote |-> wrote, reads |-> reads, recv |-> recv,
     pending |-> pend, inbuf |-> buf, nreq |-> n]

\* the except clause of send_command applied to the outcome of its try body
SendCommandExcept(res) ==
    IF res.ok THEN res
    ELSE IF CatchesException(res.exc) THEN Ok(ErrorString(res.exc))
    ELSE res

\* `.decode()` and `.strip()` of what recv returned as rd: the response text
Received(rd) ==
    IF ~rd.ok THEN rd
    ELSE LET dec == Decode(rd.val)
         IN  IF ~dec.ok THEN dec ELSE Ok(Strip(dec.val))

\* settimeout, recv, decode and strip of send_command: the response text
RecvResponse(sk, fds, buf, r) == Received(Recv(sk, fds, buf, r))

\* the channel once the answers in replies have arrived: the agent answers
\* requests it has received only
Delivered(pend, buf, replies) ==
    LET k == Min(Len(replies), Len(pend))
    IN  [pending |-> SubSeq(pend, k + 1, Len(pend)),
         inbuf   |-> buf \o AgentAnswers(pend, SubSeq(replies, 1, k))]

\* a call that writes its request again and reads again when its recv failed
ReadResult_Resend(rd, ch, n, sent) ==
    LET resp == Received(rd)
    IN  CallResult(resp, IF resp.ok THEN NoExc ELSE resp.exc,
                   IF rd.ok THEN <<sent>> ELSE <<sent, sent>>,
                   IF rd.ok THEN 1 ELSE 2,
                   IF rd.ok THEN ch.inbuf ELSE <<>>, ch.pending,
                   IF rd.ok THEN <<>> ELSE ch.inbuf, n)

\* the call that wrote sent on a channel left as ch, and whose recv ended as rd
ReadResult(rd, ch, n, sent) ==
    LET resp == Received(rd)
    IN  CallResult(resp, IF resp.ok THEN NoExc ELSE resp.exc, <<sent>>, 1,
                   IF rd.ok THEN ch.inbuf ELSE <<>>, ch.pending,
                   IF rd.ok THEN <<>> ELSE ch.inbuf, n)

\* lines 131-133 of send_command on the channel ch, under read outcome r
ReadResponse(sk, fds, ch, n, sent, r) ==
    ReadResult(Recv(sk, fds, ch.inbuf, r), ch, n, sent)

\* line 130 of send_command with outcome w, then the rest of the try body
WriteThenRead(w, sk, fds, pend, buf, n, command, io) ==
    IF ~w.ok THEN CallResult(w, w.exc, <<>>, 0, <<>>, pend, buf, n)
    ELSE ReadResponse(sk, fds, Delivered(Append(pend, n + 1), buf, io.replies),
                      n + 1, Encode(command \o "\n").val, io.r)

\* the try body of send_command from the write on: io.w is the outcome of the
\* write, io.replies the answers of the agent that arrive before the read
\* returns, io.r the outcome of the read when nothing arrives
SendCommandTry(conn, sk, fds, pend, buf, n, command, io) ==
    WriteThenRead(SendAll(sk, fds, io.w), sk, fds, pend, buf, n, command, io)

\* the try body of send_command ended as c: its except clause
Handled(c) == [c EXCEPT !.res = SendCommandExcept(c.res)]

\* AndroidConnection.send_command
send_command(conn, sk, fds, pend, buf, n, command, io) ==
    IF NotConnected(conn, sk)
    THEN CallResult(Ok(NotConnectedMsg), NoExc, <<>>, 0, <<>>, pend, buf, n)
    ELSE Handled(SendCommandTry(conn, sk, fds, pend, buf, n, command, io))

\* Element.from_dict applied to a dict
ElementOf(data) ==
    [resource_id   |-> DictGet(data, "resourceId", PyStr("")),
     text          |-> DictGet(data, "text", PyStr("")),
     content_desc  |-> DictGet(data, "contentDesc", PyStr("")),
     class_name    |-> DictGet(data, "className", PyStr("")),
     bounds        |-> DictGet(data, "bounds", PyStr("")),
     depth         |-> DictGet(data, "depth", PyInt(0)),
     is_clickable  |-> DictGet(data, "isClickable", PyBool(FALSE)),
     is_scrollable |-> DictGet(data, "isScrollable", PyBool(FALSE)),
     is_focusable  |-> DictGet(data, "isFocusable", PyBool(FALSE)),
     is_editable   |-> DictGet(data, "isEditable", PyBool(FALSE)),
     package_name  |-> DictGet(data, "packageName", PyStr("")),
     view_id       |-> DictGet(data, "viewId", PyStr("")),
     x             |-> DictGet(data, "x", PyInt(0)),
     y             |-> DictGet(data, "y", PyInt(0))]

\* the Python type name of a value
TypeName(v) ==
    CASE v.t = "none" -> "NoneType"
      [] v.t = "bool" -> "bool"
      [] OTHER        -> v.t

\* Element.from_dict: data.get exists on a dict only
from_dict(data) ==
    IF data.t = "dict" THEN Ok(ElementOf(data))
    ELSE Raise("AttributeError",
               "'" \o TypeName(data) \o "' object has no attribute 'get'")

\* the characters of a str, as the str values iterating it yields
RECURSIVE Chars(_)
Chars(s) == IF s = "" THEN <<>> ELSE <<PyStr(Head(s))>> \o Chars(Tail(s))

\* the keys of a dict, as the str values iterating it yields
Keys(d) == [i \in 1..Len(d.keys) |-> PyStr(d.keys[i])]

\* `for item in data`
Iterate(data) ==
    CASE data.t = "list" -> Ok(data.items)
      [] data.t = "dict" -> Ok(Keys(data))
      [] data.t = "str"  -> Ok(Chars(data.s))
      [] OTHER -> Raise("TypeError",
                        "'" \o TypeName(data) \o "' object is not iterable")

\* [Element.from_dict(item) for item in items], after the Elements in acc
RECURSIVE FromDictAll(_, _)
FromDictAll(items, acc) ==
    IF items = <<>> THEN Ok(acc)
    ELSE LET e == from_dict(Head(items))
         IN  IF e.ok THEN FromDictAll(Tail(items), Append(acc, e.val)) ELSE e

\* the loop of get_elements over what json.loads gave
Loaded(data) ==
    IF ~data.ok THEN data
    ELSE LET items == Iterate(data.val)
         IN  IF ~items.ok THEN items ELSE FromDictAll(items.val, <<>>)

\* the try body of get_elements
GetElementsTry(response) == Loaded(json_loads(response))

\* a handler written as `except json.JSONDecodeError`
GetElementsExcept_JSONOnly(res) ==
    IF res.ok \/ res.exc.type # "JSONDecodeError" THEN res ELSE Ok(<<>>)

\* the bare `except:` of get_elements
GetElementsExcept(res) == IF res.ok THEN res ELSE Ok(<<>>)

\* lines 146-150 of get_elements on the call c of send_command
ParseResponse(c) ==
    IF ~c.res.ok THEN c
    ELSE [c EXCEPT !.res = GetElementsExcept(GetElementsTry(c.res.val))]

\* AndroidConnection.get_elements
get_elements(conn, sk, fds, pend, buf, n, io) ==
    ParseResponse(send_command(conn, sk, fds, pend, buf, n, "GET_ELEMENTS", io))

\* a comparison written as response.startswith("OK")
IsOK_Prefix(response) == StartsWith(response, "OK")

\* `return response == "OK"`
IsOK(response) == response = "OK"

\* `return response == "OK"` on the call c of send_command
CompareOK(c) == IF ~c.res.ok THEN c ELSE [c EXCEPT !.res = Ok(IsOK(c.res.val))]

\* the body shared by click_by_*, input_text and scroll_*: one send_command,
\* then the comparison with "OK"
CommandOK(conn, sk, fds, pend, buf, n, command, io) ==
    CompareOK(send_command(conn, sk, fds, pend, buf, n, command, io))

\* the command each typed operation builds from its arguments
ClickByCoordsCmd(x, y) == "CLICK_BY_COORDS:" \o Format(x) \o "," \o Format(y)
ClickByIdCmd(element_id) == "CLICK_BY_ID:" \o Format(element_id)
ClickByTextCmd(text) == "CLICK_BY_TEXT:" \o Format(text)
ClickByContentDescCmd(content_desc) == "CLICK_BY_CONTENT_DESC:" \o Format(content_desc)
InputTextCmd(text) == "INPUT_TEXT:" \o Format(text)
ScrollDownCmd == "SCROLL_DOWN"
ScrollUpCmd == "SCROLL_UP"

(***************************************************************************)
(* The environment: what the agent sends and how the transport behaves     *)
(***************************************************************************)
Snapshot1 == "[{\"resourceId\":\"btn1\",\"x\":10,\"y\":20,\"depth\":0}]"
Snapshot2 == "[{\"resourceId\":\"null\",\"text\":\"Login\",\"x\":5,\"y\":5}]"
Snapshot3 ==
    "[{\"className\":\"a.B\",\"isClickable\":true,\"bounds\":\"[0,0]\",\"isFocusable\":true},"
    \o " {\"contentDesc\":\"go\",\"packageName\":\"p\",\"viewId\":\"v\",\"isEditable\":true,"
    \o "\"isScrollable\":false,\"depth\":2}]"

\* response bodies of the agent to a snapshot request
SnapshotData ==
    {Bytes("not json"), Bytes("[]"), Bytes(Snapshot1), Bytes(Snapshot2 \o "\r\n"),
     Bytes(Snapshot3),
     Bytes("[{\"resourceId\":\"btn1\",\"x\":10"),
     Bytes("{\"depth\":1}"), Bytes("[{\"text\":\"Login\"},7]"), Bytes("\"ab\""),
     Bytes("5"), Bytes("ERROR: unknown"), BadBytes}

\* response bodies of the agent to the other commands
CommandData ==
    {Bytes("OK"), Bytes(" OK\n"), Bytes("FAIL"), Bytes("OK OK"), Bytes("ok"), BadBytes}

\* sequences of 1..n response bodies
RECURSIVE ReplySeqs(_, _)
ReplySeqs(data, n) ==
    IF n <= 0 THEN {}
    ELSE {<<d>> : d \in data}
            \cup {Append(q, d) : q \in ReplySeqs(data, n - 1), d \in data}

\* response bodies of answers that arrive together with a later answer
LateData == {Bytes("OK"), Bytes("FAIL\n")}

\* the answers that can arrive during one call that has npend unanswered
\* requests before its own: its own answer alone, or late answers before it
ReplySet(data, npend) ==
    {<<d>> : d \in data}
        \cup {Append(q, d) : q \in ReplySeqs(LateData, Min(MaxReplies - 1, npend)),
                             d \in LateData}

\* the outcomes of the I/O of one send_command
IOSet(data, npend) ==
    {[w |-> "pipe", replies |-> <<>>, r |-> "timeout"]}
        \cup {[w |-> "ok", replies |-> <<>>, r |-> r] : r \in {"timeout", "reset", "eof"}}
        \cup {[w |-> "ok", replies |-> q, r |-> "timeout"] : q \in ReplySet(data, npend)}

\* a Closed session does no I/O: one outcome stands for all
NoIO == {[w |-> "ok", replies |-> <<>>, r |-> "eof"]}

\* the outcomes of the I/O of a call made in the current state
IOs(data) ==
    IF NotConnected(connected, socket) THEN NoIO ELSE IOSet(data, Len(pending))

\* texts a caller passes to send_command
CommandTexts == {"GET_ELEMENTS", "PING"}

\* values callers pass to the typed operations
ArgStrs == {PyStr("btn1"), PyStr("")}
\* texts callers pass to click_by_text and input_text: a text may span lines
TextArgs == ArgStrs \cup {PyStr("a\nb")}
ArgCoords == {<<PyInt(5), PyInt(5)>>, <<PyInt(0), PyInt(0 - 12)>>}

(***************************************************************************)
(* Actions of the protocol client                                          *)
(***************************************************************************)
\* the threads that call send_command
Threads == 1..NumThreads

\* a thread outside send_command
IdleThread == [pc |-> "idle", command |-> "", req |-> 0, got |-> <<>>, ret |-> PyNone,
               exc |-> NoExc]

NoCall ==
    [op |-> "init", args |-> <<>>, ret |-> PyNone, exc |-> NoExc, caught |-> NoExc,
     wrote |-> <<>>, reads |-> 0, recv |-> <<>>, sends |-> 0, log |-> <<>>,
     was_connected |-> FALSE, was_socket |-> None]

\* the record of a finished call
Call(op, args, ret, exc, caught, wrote, reads, recv, sends, log) ==
    [op |-> op, args |-> args, ret |-> ret, exc |-> exc, caught |-> caught,
     wrote |-> wrote, reads |-> reads, recv |-> recv, sends |-> sends, log |-> log,
     was_connected |-> connected, was_socket |-> socket]

\* a call built on one send_command finishes with outcome c; wrap tags its value
Finish(op, args, c, ret) ==
    /\ pending' = c.pending
    /\ inbuf' = c.inbuf
    /\ nreq' = c.nreq
    /\ last' = Call(op, args, IF c.res.ok THEN ret ELSE PyNone,
                    IF c.res.ok THEN NoExc ELSE c.res.exc,
                    c.caught, c.wrote, c.reads, c.recv, 1, <<>>)
    /\ UNCHANGED <<socket, connected, socks>>

\* an except branch of connect that leaves the flag as it was
ConnectFlag_Unchanged(outcome) == outcome = "ok" \/ connected

\* self.connected as connect leaves it: True at line 118, False at line 122
ConnectFlag(outcome) == outcome = "ok"

\* AndroidConnection.connect: outcome "ok", "refused" (or timeout, unreachable)
\* or "nosock" (socket.socket() itself fails)
Connect(outcome) ==
    /\ Len(socks) < MaxSockets
    /\ IF outcome = "nosock"
       THEN /\ connected' = ConnectFlag(outcome)
            /\ UNCHANGED <<socket, socks, pending, inbuf>>
       ELSE /\ socks' = Append(socks, "open")
            /\ socket' = Len(socks) + 1
            /\ pending' = <<>>
            /\ inbuf' = <<>>
            /\ connected' = ConnectFlag(outcome)
    /\ last' = Call("connect", <<>>, PyBool(outcome = "ok"), NoExc,
                    IF outcome = "ok" THEN NoExc
                    ELSE IF outcome = "refused"
                    THEN [type |-> "ConnectionRefusedError",
                          msg |-> "[Errno 111] Connection refused"]
                    ELSE [type |-> "OSError", msg |-> "[Errno 24] Too many open files"],
                    <<>>, 0, <<>>, 0, <<>>)
    /\ UNCHANGED <<nreq, threads, uiVars>>

\* a disconnect that drops the handle and leaves the flag as it was
DisconnectFlag_Kept == connected

\* self.connected as disconnect leaves it: False at line 142
DisconnectFlag == FALSE

\* AndroidConnection.disconnect: closing the descriptor succeeds ("ok") or
\* socket.close() raises OSError ("error"); the descriptor is released in both
DisconnectAs(op, outcome) ==
    /\ IF socket # None
       THEN /\ socks' = [socks EXCEPT ![socket] = "closed"]
            /\ IF outcome = "ok"
               THEN /\ socket' = None
                    /\ connected' = DisconnectFlag
                    /\ pending' = <<>>
                    /\ inbuf' = <<>>
               ELSE UNCHANGED <<socket, connected, pending, inbuf>>
       ELSE /\ connected' = DisconnectFlag
            /\ UNCHANGED <<socket, socks, pending, inbuf>>
    /\ last' = Call(op, <<>>, PyNone,
                    IF socket # None /\ outcome = "error"
                    THEN [type |-> "OSError", msg |-> "[Errno 5] Input/output error"]
                    ELSE NoExc,
                    NoExc, <<>>, 0, <<>>, 0, <<>>)
    /\ UNCHANGED <<nreq, threads, uiVars>>

Disconnect(outcome) == DisconnectAs("disconnect", outcome)

\* room for one more request, when the call would write one
CanSend == NotConnected(connected, socket) \/ nreq < MaxRequests

SendCommand(command, io) ==
    /\ CanSend
    /\ \E c \in {send_command(connected, socket, socks, pending, inbuf, nreq, command, io)} :
            Finish("send_command", <<PyStr(command)>>, c, PyStr(c.res.val))
    /\ UNCHANGED <<threads, uiVars>>

GetElements(io) ==
    /\ CanSend
    /\ \E c \in {get_elements(connected, socket, socks, pending, inbuf, nreq, io)} :
            Finish("get_elements", <<>>, c, PyList(c.res.val))
    /\ UNCHANGED <<threads, uiVars>>

\* a typed operation that sends command and compares the response with "OK"
TypedCommand(op, args, command, io) ==
    /\ CanSend
    /\ \E c \in {CommandOK(connected, socket, socks, pending, inbuf, nreq, command, io)} :
            Finish(op, args, c, PyBool(c.res.val))
    /\ UNCHANGED <<threads, uiVars>>

ClickByCoords(x, y, io) == TypedCommand("click_by_coords", <<x, y>>, ClickByCoordsCmd(x, y), io)
ClickById(v, io) == TypedCommand("click_by_id", <<v>>, ClickByIdCmd(v), io)
ClickByText(v, io) == TypedCommand("click_by_text", <<v>>, ClickByTextCmd(v), io)
ClickByContentDesc(v, io) ==
    TypedCommand("click_by_content_desc", <<v>>, ClickByContentDescCmd(v), io)
InputText(v, io) == TypedCommand("input_text", <<v>>, InputTextCmd(v), io)
ScrollDown(io) == TypedCommand("scroll_down", <<>>, ScrollDownCmd, io)
ScrollUp(io) == TypedCommand("scroll_up", <<>>, ScrollUpCmd, io)

\* the agent answers its oldest unanswered request while no call is waiting
AgentReply(data) ==
    /\ pending # <<>>
    /\ socket # None
    /\ inbuf' = Append(inbuf, [req |-> Head(pending), data |-> data])
    /\ pending' = Tail(pending)
    /\ UNCHANGED <<socket, connected, socks, nreq, threads, last, uiVars>>

InitConn ==
    /\ socket = None
    /\ connected = FALSE
    /\ socks = <<>>
    /\ pending = <<>>
    /\ inbuf = <<>>
    /\ nreq = 0
    /\ threads = [t \in Threads |-> IdleThread]
    /\ last = NoCall

InitUI ==
    /\ elements = <<>>
    /\ selected_element = PyNone
    /\ best = NoResult
    /\ all_locators = NoResult
    /\ detail_text = <<>>
    /\ element_tree = <<>>

Init == InitConn /\ InitUI

Next ==
    \/ \E o \in {"ok", "refused", "nosock"} : Connect(o)
    \/ \E o \in {"ok", "error"} : Disconnect(o)
    \/ \E d \in LateData : AgentReply(d)
    \/ \E io \in IOs(CommandData \cup {Bytes(Snapshot1)}), command \in CommandTexts :
            SendCommand(command, io)
    \/ \E io \in IOs(SnapshotData) : GetElements(io)
    \/ \E io \in IOs(CommandData) :
        \/ \E c \in ArgCoords : ClickByCoords(c[1], c[2], io)
        \/ \E v \in ArgStrs :
            \/ ClickById(v, io)
            \/ ClickByContentDesc(v, io)
        \/ \E v \in TextArgs :
            \/ ClickByText(v, io)
            \/ InputText(v, io)
        \/ ScrollDown(io)
        \/ ScrollUp(io)

Spec == Init /\ [][Next]_vars

(***************************************************************************)
(* MainWindow: what it displays of an Element (fields of type str, depth   *)
(* of type int, as Element declares them)                                  *)
(***************************************************************************)
\* `{value or '-'}` in an f-string
OrDash(v) == IF Truthy(v) THEN Format(v) ELSE "-"

\* `'Y' if flag else 'N'`, where Y is the label U+662F (yes) and N the label
\* U+5426 (no)
YesNo(v) == IF Truthy(v) THEN "yes" ELSE "no"

\* the lines show_element_details appends to detail_text
DetailLines(e) ==
    <<"Resource ID: " \o OrDash(e.resource_id),
      "Text: " \o OrDash(e.text),
      "Content Desc: " \o OrDash(e.content_desc),
      "Class Name: " \o OrDash(e.class_name),
      "Package: " \o OrDash(e.package_name),
      "Bounds: " \o OrDash(e.bounds),
      "Position: " \o CoordsValue(e),
      "Depth: " \o Format(e.depth),
      "Clickable: " \o YesNo(e.is_clickable),
      "Scrollable: " \o YesNo(e.is_scrollable),
      "Editable: " \o YesNo(e.is_editable)>>

\* s.split(sep)[-1]: what follows the last sep of s
RECURSIVE LastPart(_, _)
LastPart(s, sep) ==
    IF s = "" \/ SubSeq(s, Len(s), Len(s)) = sep THEN ""
    ELSE LastPart(SubSeq(s, 1, Len(s) - 1), sep) \o SubSeq(s, Len(s), Len(s))

\* s[:n]
Prefix(s, n) == SubSeq(s, 1, Min(n, Len(s)))

\* the display_text create_items builds for element e
DisplayText(e) ==
    LET name == IF Truthy(e.class_name) THEN LastPart(e.class_name.s, ".") ELSE "Element"
    IN  IF Truthy(e.text) THEN name \o ": " \o Prefix(e.text.s, 20)
        ELSE IF Truthy(e.resource_id) THEN name \o ": " \o LastPart(e.resource_id.s, "/")
        ELSE name

\* the QTreeWidgetItem create_items makes for element e: its three columns and
\* the element it carries
TreeItem(e) ==
    [columns |-> <<DisplayText(e),
                   IF Truthy(e.class_name) THEN LastPart(e.class_name.s, ".") ELSE "",
                   IF Truthy(e.text) THEN Prefix(e.text.s, 30) ELSE "">>,
     data |-> e]

\* create_items(elements_by_depth[d]): the items of the elements of depth d
CreateItems(elems, d) ==
    LET group == SelectSeq(elems, LAMBDA e : e.depth = PyInt(d))
    IN  [i \in 1..Len(group) |-> TreeItem(group[i])]

\* `for depth in sorted(keys): create_items(...)` over the depths left
RECURSIVE CreateByDepth(_, _)
CreateByDepth(elems, depths) ==
    IF depths = {} THEN <<>>
    ELSE LET d == CHOOSE d \in depths : \A o \in depths : d <= o
         IN  CreateItems(elems, d) \o CreateByDepth(elems, depths \ {d})

\* a tree filled without grouping: one item per element, in response order
update_element_tree_Ungrouped(elems) == [i \in 1..Len(elems) |-> TreeItem(elems[i])]

\* MainWindow.update_element_tree: the items of the cleared and refilled tree
update_element_tree(elems) ==
    CreateByDepth(elems, {elems[i].depth.n : i \in 1..Len(elems)})

(***************************************************************************)
(* The locator functions applied to every Element of a bounded set         *)
(***************************************************************************)
\* the Element of an empty dict: every field at its default
DefaultElement == ElementOf(PyDict(<<>>, <<>>))

FieldValues == {PyStr(""), PyStr("null"), PyStr("a"), PyStr("b")}

LocElements ==
    {[DefaultElement EXCEPT !.resource_id = r, !.text = t, !.content_desc = d,
                            !.class_name = c, !.x = PyInt(x), !.y = PyInt(y)] :
        r \in FieldValues, t \in FieldValues, d \in FieldValues, c \in FieldValues,
        x \in 0..MaxCoord, y \in {0, 0 - MaxCoord}}

\* ElementDetailDialog.setup_ui: the recommended locator of its element
BestLocator ==
    /\ best = NoResult
    /\ best' = Result(get_best_locator(selected_element))
    /\ UNCHANGED <<elements, selected_element, all_locators, detail_text, element_tree,
                    connVars, threads, last>>

\* MainWindow.show_element_details: the locators offered in the combo box
ShowElementDetails ==
    /\ all_locators = NoResult
    /\ all_locators' = Result(get_all_locators(selected_element))
    /\ detail_text' = DetailLines(selected_element)
    /\ UNCHANGED <<elements, selected_element, best, element_tree, connVars, threads, last>>

InitLoc ==
    /\ InitConn
    /\ elements = <<>>
    /\ selected_element \in LocElements
    /\ best = NoResult
    /\ all_locators = NoResult
    /\ detail_text = <<>>
    /\ element_tree = <<>>

NextLoc == BestLocator \/ ShowElementDetails

SpecLoc == InitLoc /\ [][NextLoc]_vars

(***************************************************************************)
(* update_element_tree applied to every snapshot of a bounded set          *)
(***************************************************************************)
\* the Elements of the tree model: a depth and a text that tells them apart
TreeElements ==
    {[DefaultElement EXCEPT !.depth = PyInt(d), !.text = t] :
        d \in 0..MaxDepth, t \in {PyStr("a"), PyStr("b")}}

\* MainWindow.update_element_tree on self.elements
UpdateElementTree ==
    /\ last.op # "update_element_tree"
    /\ element_tree' = update_element_tree(elements)
    /\ last' = Call("update_element_tree", <<>>, PyNone, NoExc, NoExc,
                    <<>>, 0, <<>>, 0, <<>>)
    /\ UNCHANGED <<elements, selected_element, best, all_locators, detail_text,
                    connVars, threads>>

InitTree ==
    /\ InitConn
    /\ elements \in UNION {[1..n -> TreeElements] : n \in 0..MaxElements}
    /\ selected_element = PyNone
    /\ best = NoResult
    /\ all_locators = NoResult
    /\ detail_text = <<>>
    /\ element_tree = <<>>

NextTree == UpdateElementTree

SpecTree == InitTree /\ [][NextTree]_vars

(***************************************************************************)
(* MainWindow: the handlers that use the connection                        *)
(***************************************************************************)
\* the snapshot the agent of the window model reports
WindowSnapshot ==
    "[{\"resourceId\":\"b1\",\"text\":\"Login\",\"contentDesc\":\"go\",\"depth\":1},"
    \o "{\"resourceId\":\"null\",\"text\":\"Login\",\"x\":5,\"y\":5},"
    \o "{\"text\":\"null\",\"contentDesc\":\"go\"},"
    \o "{\"resourceId\":\"\",\"contentDesc\":\"null\"}]"

\* response bodies of the agent to the clicks of the window
ClickData == {Bytes("OK"), Bytes("FAIL")}

\* the state click_test threads through its attempts
ClickStart ==
    [done |-> FALSE, exc |-> NoExc, pending |-> pending, inbuf |-> inbuf,
     nreq |-> nreq, wrote |-> <<>>, reads |-> 0, log |-> <<>>]

\* the state of click_test after the click c of an attempt; returns tells
\* whether a click that succeeded ends click_test
Attempted(st, kind, value, command, c, returns) ==
    [done |-> ~c.res.ok \/ (returns /\ c.res.val),
     exc |-> IF c.res.ok THEN NoExc ELSE c.res.exc,
     pending |-> c.pending, inbuf |-> c.inbuf, nreq |-> c.nreq,
     wrote |-> st.wrote \o c.wrote, reads |-> st.reads + c.reads,
     log |-> Append(st.log, [kind |-> kind, value |-> value, command |-> command,
                             wrote |-> c.wrote, recv |-> c.recv,
                             ok |-> c.res.ok /\ c.res.val])]

\* an attempt whose success does not end click_test
ClickAttempt_NoReturn(st, kind, value, command, io) ==
    Attempted(st, kind, value, command,
              CommandOK(connected, socket, socks, st.pending, st.inbuf, st.nreq,
                        command, io),
              FALSE)

\* one `if self.connection.click_by_...(value): ...; return` of click_test:
\* done when the click returned true (or raised)
ClickAttempt(st, kind, value, command, io) ==
    Attempted(st, kind, value, command,
              CommandOK(connected, socket, socks, st.pending, st.inbuf, st.nreq,
                        command, io),
              TRUE)

\* lines 669-672 of click_test: the click by resource id
AttemptById(e, io, st) ==
    IF Present(e.resource_id)
    THEN ClickAttempt(st, "id", e.resource_id, ClickByIdCmd(e.resource_id), io)
    ELSE st

\* lines 674-677 of click_test: the click by text
AttemptByText(e, io, st) ==
    IF ~st.done /\ Present(e.text)
    THEN ClickAttempt(st, "text", e.text, ClickByTextCmd(e.text), io)
    ELSE st

\* lines 679-682 of click_test: the click by content description
AttemptByContentDesc(e, io, st) ==
    IF ~st.done /\ Present(e.content_desc)
    THEN ClickAttempt(st, "content-desc", e.content_desc,
                      ClickByContentDescCmd(e.content_desc), io)
    ELSE st

\* MainWindow.click_test on element e; ios[i] is the I/O outcome of attempt i
click_test(e, ios) ==
    AttemptByContentDesc(e, ios[3],
        AttemptByText(e, ios[2], AttemptById(e, ios[1], ClickStart)))

\* the window has not been closed: closeEvent ends the application
WindowShown == last.op # "closeEvent"

\* room for n more requests of the window's handlers
CanSendUI(n) == NotConnected(connected, socket) \/ nreq + n <= MaxUIRequests

\* the "click test" button
ClickTest(ios) ==
    /\ WindowShown
    /\ selected_element # PyNone
    /\ CanSendUI(3)
    /\ \E r \in {click_test(selected_element, ios)} :
           /\ pending' = r.pending
           /\ inbuf' = r.inbuf
           /\ nreq' = r.nreq
           /\ last' = Call("click_test", <<selected_element>>, PyNone, r.exc, NoExc,
                           r.wrote, r.reads, <<>>, Len(r.log), r.log)
    /\ UNCHANGED <<socket, connected, socks, threads, uiVars>>

\* MainWindow.refresh_elements: get_elements, then update_element_tree
RefreshElements(io) ==
    /\ WindowShown
    /\ connected
    /\ CanSendUI(1)
    /\ \E c \in {get_elements(connected, socket, socks, pending, inbuf, nreq, io)} :
           /\ Finish("refresh_elements", <<>>, c, PyNone)
           /\ elements' = IF c.res.ok THEN c.res.val ELSE elements
           /\ element_tree' = IF c.res.ok THEN update_element_tree(c.res.val)
                               ELSE element_tree
    /\ UNCHANGED <<selected_element, best, all_locators, detail_text, threads>>

\* MainWindow.show_connect_dialog once a device is listed: connect, and on
\* success refresh_elements
ShowConnectDialog(outcome, io) ==
    /\ WindowShown
    /\ Len(socks) < MaxSockets
    /\ outcome = "ok" => nreq + 1 <= MaxUIRequests
    /\ socks' = Append(socks, "open")
    /\ socket' = Len(socks) + 1
    /\ connected' = (outcome = "ok")
    /\ IF outcome = "ok"
       THEN \E c \in {get_elements(TRUE, Len(socks) + 1, Append(socks, "open"),
                                   <<>>, <<>>, nreq, io)} :
                /\ pending' = c.pending
                /\ inbuf' = c.inbuf
                /\ nreq' = c.nreq
                /\ elements' = IF c.res.ok THEN c.res.val ELSE elements
                /\ element_tree' = IF c.res.ok THEN update_element_tree(c.res.val)
                                    ELSE element_tree
                /\ last' = Call("show_connect_dialog", <<>>, PyNone,
                                IF c.res.ok THEN NoExc ELSE c.res.exc, c.caught,
                                c.wrote, c.reads, c.recv, 1, <<>>)
       ELSE /\ pending' = <<>>
            /\ inbuf' = <<>>
            /\ last' = Call("show_connect_dialog", <<>>, PyNone, NoExc, NoExc,
                            <<>>, 0, <<>>, 0, <<>>)
            /\ UNCHANGED <<nreq, elements, element_tree>>
    /\ UNCHANGED <<selected_element, best, all_locators, detail_text, threads>>

\* MainWindow.on_element_selected on the tree item of elements[i], which runs
\* show_element_details
OnElementSelected(i) ==
    /\ WindowShown
    /\ i \in 1..Len(elements)
    /\ selected_element' = elements[i]
    /\ all_locators' = Result(get_all_locators(elements[i]))
    /\ detail_text' = DetailLines(elements[i])
    /\ UNCHANGED <<elements, best, element_tree, connVars, threads, last>>

\* MainWindow.closeEvent
CloseEvent(outcome) ==
    /\ WindowShown
    /\ DisconnectAs("closeEvent", outcome)

\* the outcomes of the I/O of one call of the window: the write fails, the read
\* times out, or the agent answers in time
WindowIOSet(data) ==
    {[w |-> "pipe", replies |-> <<>>, r |-> "timeout"],
     [w |-> "ok", replies |-> <<>>, r |-> "timeout"]}
        \cup {[w |-> "ok", replies |-> <<d>>, r |-> "timeout"] : d \in data}

WindowIOs(data) == IF NotConnected(connected, socket) THEN NoIO ELSE WindowIOSet(data)

\* the I/O outcomes of the three attempts of one click_test
ClickIOs == {<<a, b, c>> : a \in WindowIOs(ClickData), b \in WindowIOs(ClickData),
                           c \in WindowIOs(ClickData)}

NextUI ==
    \/ \E o \in {"ok", "refused"}, io \in WindowIOSet({Bytes(WindowSnapshot), Bytes("[]")}) :
            ShowConnectDialog(o, io)
    \/ \E io \in WindowIOs({Bytes(WindowSnapshot)}) : RefreshElements(io)
    \/ \E i \in 1..Len(elements) : OnElementSelected(i)
    \/ \E ios \in ClickIOs : ClickTest(ios)
    \/ \E d \in ClickData : WindowShown /\ AgentReply(d)
    \/ \E o \in {"ok", "error"} : CloseEvent(o)

SpecUI == Init /\ [][NextUI]_vars

(***************************************************************************)
(* send_command called from several threads: the steps of one call         *)
(***************************************************************************)
\* thread t calls send_command(command): lines 126-127, the connected check
ThreadCall(t, command) ==
    /\ threads[t].pc = "idle"
    /\ threads' = [threads EXCEPT ![t] =
            IF NotConnected(connected, socket)
            THEN [IdleThread EXCEPT !.pc = "done", !.command = command,
                                    !.ret = PyStr(NotConnectedMsg)]
            ELSE [IdleThread EXCEPT !.pc = "write", !.command = command]]
    /\ UNCHANGED <<connVars, last, uiVars>>

\* a thread leaves send_command with the outcome res of its try body
ThreadReturn(th, res) ==
    LET out == SendCommandExcept(res)
    IN  [th EXCEPT !.pc = "done",
                   !.ret = IF out.ok THEN PyStr(out.val) ELSE PyNone,
                   !.exc = IF out.ok THEN NoExc ELSE out.exc]

\* thread t runs line 130: sendall of its request line, with outcome w
ThreadWrite(t, w) ==
    /\ threads[t].pc = "write"
    /\ nreq < MaxRequests
    /\ \E wr \in {SendAll(socket, socks, w)} :
           IF wr.ok
           THEN /\ nreq' = nreq + 1
                /\ pending' = Append(pending, nreq + 1)
                /\ threads' = [threads EXCEPT ![t].pc = "read", ![t].req = nreq + 1]
           ELSE /\ threads' = [threads EXCEPT ![t] = ThreadReturn(threads[t], wr)]
                /\ UNCHANGED <<nreq, pending>>
    /\ UNCHANGED <<socket, connected, socks, inbuf, last, uiVars>>

\* thread t runs lines 131-133: recv returns what is buffered, or fails with
\* outcome r when nothing is
ThreadRead(t, r) ==
    /\ threads[t].pc = "read"
    /\ \E rd \in {Recv(socket, socks, inbuf, r)} :
           /\ threads' = [threads EXCEPT ![t] =
                    [ThreadReturn(threads[t], Received(rd)) EXCEPT
                        !.got = IF rd.ok THEN [i \in 1..Len(inbuf) |-> inbuf[i].req]
                                ELSE <<>>]]
           /\ inbuf' = IF rd.ok THEN <<>> ELSE inbuf
    /\ UNCHANGED <<socket, connected, socks, pending, nreq, last, uiVars>>

\* the client is connected before the threads start
ConnectFirst(outcome) ==
    /\ \A t \in Threads : threads[t].pc = "idle"
    /\ Len(socks) < MaxSockets
    /\ Connect(outcome)

NextConc ==
    \/ \E o \in {"ok", "refused"} : ConnectFirst(o)
    \/ \E t \in Threads, command \in {"GET_ELEMENTS", "SCROLL_UP"} : ThreadCall(t, command)
    \/ \E t \in Threads, w \in {"ok", "pipe"} : ThreadWrite(t, w)
    \/ \E t \in Threads, r \in {"timeout", "reset", "eof"} : ThreadRead(t, r)
    \/ \E d \in LateData \cup {Bytes("[]")} : AgentReply(d)

SpecConc == Init /\ [][NextConc]_vars

(***************************************************************************)
(* disconnect called from a thread while others are inside send_command:   *)
(* the steps of one call                                                   *)
(***************************************************************************)
\* thread t calls disconnect(): line 139, the test of the handle
ThreadDisconnect(t) ==
    /\ threads[t].pc = "idle"
    /\ threads' = [threads EXCEPT ![t].pc = IF socket # None THEN "close" ELSE "flag"]
    /\ UNCHANGED <<connVars, last, uiVars>>

\* thread t runs line 140: close() releases the descriptor and returns ("ok")
\* or raises OSError ("error"), which ends disconnect; closing a socket
\* object that is closed already does nothing
ThreadClose(t, outcome) ==
    /\ threads[t].pc = "close"
    /\ IF socket = None
       THEN /\ threads' = [threads EXCEPT
                    ![t].pc = "disconnected",
                    ![t].exc = [type |-> "AttributeError",
                                msg |-> "'NoneType' object has no attribute 'close'"]]
            /\ UNCHANGED socks
       ELSE /\ socks' = [socks EXCEPT ![socket] = "closed"]
            /\ threads' = [threads EXCEPT ![t] =
                    IF outcome = "ok" \/ socks[socket] = "closed"
                    THEN [@ EXCEPT !.pc = "clear"]
                    ELSE [@ EXCEPT !.pc = "disconnected",
                                   !.exc = [type |-> "OSError",
                                            msg |-> "[Errno 5] Input/output error"]]]
    /\ UNCHANGED <<socket, connected, pending, inbuf, nreq, last, uiVars>>

\* thread t runs line 141: self.socket = None
ThreadClear(t) ==
    /\ threads[t].pc = "clear"
    /\ socket' = None
    /\ pending' = <<>>
    /\ inbuf' = <<>>
    /\ threads' = [threads EXCEPT ![t].pc = "flag"]
    /\ UNCHANGED <<connected, socks, nreq, last, uiVars>>

\* thread t runs line 142: self.connected = False, and disconnect returns
ThreadFlag(t) ==
    /\ threads[t].pc = "flag"
    /\ connected' = DisconnectFlag
    /\ threads' = [threads EXCEPT ![t].pc = "disconnected"]
    /\ UNCHANGED <<socket, socks, pending, inbuf, nreq, last, uiVars>>

NextCancel ==
    \/ \E o \in {"ok", "refused"} : ConnectFirst(o)
    \/ \E t \in Threads, command \in {"GET_ELEMENTS", "PING"} : ThreadCall(t, command)
    \/ \E t \in Threads, w \in {"ok", "pipe"} : ThreadWrite(t, w)
    \/ \E t \in Threads, r \in {"timeout", "reset", "eof"} : ThreadRead(t, r)
    \/ \E d \in LateData \cup {Bytes("[]")} : AgentReply(d)
    \/ \E t \in Threads : ThreadDisconnect(t)
    \/ \E t \in Threads, o \in {"ok", "error"} : ThreadClose(t, o)
    \/ \E t \in Threads : ThreadClear(t)
    \/ \E t \in Threads : ThreadFlag(t)

SpecCancel == Init /\ [][NextCancel]_vars

(***************************************************************************)
(* Properties of the protocol client                                       *)
(***************************************************************************)
\* the session status before the last call
WasOpen == last.was_connected /\ last.was_socket # None

TypedOps ==
    {"click_by_coords", "click_by_id", "click_by_text", "click_by_content_desc",
     "input_text", "scroll_down", "scroll_up"}
CommandOps == TypedOps \cup {"send_command", "get_elements"}

\* C1: a send_command made while the session is Closed (flag false or no
\* handle) returns "ERROR: Not connected", writes nothing, reads nothing, and
\* leaves the session state as it was.
C1_ClosedSendCommand ==
    [][(last'.op = "send_command" /\ last' # last /\ ~IsOpen) =>
            /\ last'.ret = PyStr("ERROR: Not connected")
            /\ last'.exc = NoExc
            /\ last'.wrote = <<>>
            /\ last'.reads = 0
            /\ UNCHANGED connVars]_vars

\* a send_command was made on a session that holds a handle but is not connected
C1_Witness ==
    /\ last.op = "send_command"
    /\ ~last.was_connected
    /\ last.was_socket # None
    /\ last.args[1] = PyStr("PING")

\* C2: no call of send_command, get_elements or a click/input/scroll operation
\* ends with an exception: a failed write or read gives a string starting with
\* "ERROR:" from send_command, get_elements gives a sequence, the others a boolean.
C2_NeverRaises ==
    last.op \in CommandOps =>
        /\ last.exc = NoExc
        /\ last.op = "send_command" =>
            /\ last.ret.t = "str"
            /\ last.caught # NoExc => StartsWith(last.ret.s, "ERROR:")
        /\ last.op = "get_elements" => last.ret.t = "list"
        /\ last.op \in TypedOps => last.ret.t = "bool"

\* a read of send_command failed on bytes that are not UTF-8
C2_Witness ==
    /\ last.op = "send_command"
    /\ last.caught.type = "UnicodeDecodeError"
    /\ last.reads = 1

\* C3: the session changes state only Closed -> Open by a successful connect
\* and Open -> Closed by a disconnect or a command that hit an I/O error, and
\* an Open session keeps its transport handle.
C3_OnlyOpenAndClose ==
    [][/\ (~IsOpen /\ IsOpen') => (last'.op = "connect" /\ last'.ret = PyBool(TRUE))
       /\ (IsOpen /\ ~IsOpen') =>
            \/ last'.op = "disconnect"
            \/ last'.op \in CommandOps /\ last'.caught # NoExc
       /\ (IsOpen /\ IsOpen') => socket' = socket]_vars

\* C4: after a send_command on an Open session hit an I/O error, the session
\* is Closed.
C4_ClosedAfterIOError ==
    (last.op = "send_command" /\ WasOpen /\ last.caught # NoExc) => ~IsOpen

\* C12: after disconnect the session is Closed and holds no transport handle,
\* in whatever state disconnect was called and whether or not closing the
\* transport succeeded.
C12_DisconnectCloses ==
    last.op = "disconnect" => (~connected /\ socket = None)

\* C22: in every state reached by connect, send_command, get_elements, the
\* click, input and scroll operations and disconnect called one after another,
\* the flag is set only while the client holds a socket: connected implies
\* socket is not None.
C22_OpenFlagHasHandle ==
    connected => socket # None

\* the flag is still set, and the handle still held, after a disconnect whose
\* close raised on the second socket of the client
C22_Witness ==
    /\ connected
    /\ socket = 2
    /\ last.op = "disconnect"
    /\ last.exc.type = "OSError"

\* the last call was a connect that failed
ConnectFailed == last.op = "connect" /\ last.ret = PyBool(FALSE)

\* C13: a connect that fails returns False without raising and leaves the
\* client Closed, whether it was Closed or Open before, and a send_command that
\* follows returns the not-connected sentinel without writing.
C13_FailedConnectCloses ==
    [][/\ ConnectFailed' => (~IsOpen' /\ ~connected' /\ last'.exc = NoExc)
       /\ (ConnectFailed /\ last'.op = "send_command") =>
            /\ last'.ret = PyStr(NotConnectedMsg)
            /\ last'.wrote = <<>>
            /\ last'.reads = 0]_vars

\* a connect failed on a client that was Open
C13_Witness ==
    /\ ConnectFailed
    /\ last.was_connected
    /\ last.was_socket # None
    /\ last.caught.type = "ConnectionRefusedError"

\* C16: the client never retries or reconnects on its own: a step creates at
\* most one socket and only a connect call creates one, a command writes at
\* most one request and reads at most once, after its write, and only a
\* command writes a request.
C16_NoRetry ==
    [][/\ Len(socks') <= Len(socks) + 1
       /\ Len(socks') > Len(socks) => last'.op = "connect"
       /\ nreq' <= nreq + 1
       /\ nreq' > nreq => last'.op \in CommandOps
       /\ last'.op \in CommandOps =>
            /\ last'.sends = 1
            /\ Len(last'.wrote) <= 1
            /\ last'.reads <= Len(last'.wrote)
       /\ last'.op = "connect" => (last'.wrote = <<>> /\ last'.reads = 0)]_vars

\* a send_command wrote its request once and its one read timed out
C16_Witness ==
    /\ last.op = "send_command"
    /\ last.caught.type = "timeout"
    /\ Len(last.wrote) = 1
    /\ last.reads = 1
    /\ Len(socks) = 1

\* C17: every request written is one line: its bytes hold exactly one "\n",
\* as their last character.
C17_OneLinePerRequest ==
    \A i \in 1..Len(last.wrote) :
        LET text == last.wrote[i].text
        IN  /\ text # ""
            /\ \A k \in 1..Len(text) : (SubSeq(text, k, k) = "\n") <=> (k = Len(text))

\* the socket objects the client created and has not closed
OpenSockets == {i \in 1..Len(socks) : socks[i] = "open"}

\* C19: every socket the client created is closed on every exit path: none is
\* left open after a failed connect or after disconnect, none is open while
\* the client no longer refers to it, and at most one is open at any time.
C19_HandlesClosed ==
    /\ Cardinality(OpenSockets) <= 1
    /\ \A i \in OpenSockets : i = socket
    /\ ConnectFailed => OpenSockets = {}
    /\ last.op = "disconnect" => OpenSockets = {}

\* the requests whose answers the last call received, in order of arrival
AnswersReceived == [i \in 1..Len(last.recv) |-> last.recv[i].req]

\* (the request the last call wrote is request number nreq)
\* C21: against an agent that answers each request once and in order, a
\* send_command on an Open session that returns a response returns the answer
\* to its own request and nothing else, also when an earlier call timed out
\* and the answer to that call's request arrived late.
C21_AnswerToOwnRequest ==
    (/\ last.op = "send_command"
     /\ WasOpen
     /\ last.caught = NoExc
     /\ last.wrote # <<>>
     /\ last.recv # <<>>)
        => AnswersReceived = <<nreq>>

\* text is "OK" with any whitespace before and after it
IsTrimmedOK(text) ==
    \E i \in 1..(Len(text) - 1) :
        /\ SubSeq(text, i, i + 1) = "OK"
        /\ \A k \in 1..Len(text) : (k < i \/ k > i + 1) => SubSeq(text, k, k) \in PyWs

\* the request line each typed operation is specified to send
RequestLine(op, args) ==
    CASE op = "click_by_coords" ->
            "CLICK_BY_COORDS:" \o IntToStr(args[1].n) \o "," \o IntToStr(args[2].n) \o "\n"
      [] op = "click_by_id" -> "CLICK_BY_ID:" \o args[1].s \o "\n"
      [] op = "click_by_text" -> "CLICK_BY_TEXT:" \o args[1].s \o "\n"
      [] op = "click_by_content_desc" -> "CLICK_BY_CONTENT_DESC:" \o args[1].s \o "\n"
      [] op = "input_text" -> "INPUT_TEXT:" \o args[1].s \o "\n"
      [] op = "scroll_down" -> "SCROLL_DOWN\n"
      [] op = "scroll_up" -> "SCROLL_UP\n"

\* the bytes the last call received, joined
LastReceived == JoinChunks(last.recv)

\* C5: a click, input or scroll operation makes one send_command, writes at most
\* its one request line, and returns true exactly when a response was received
\* and is "OK" once trimmed; errors and a Closed session give false.
C5_TrueIffOK ==
    last.op \in TypedOps =>
        /\ last.sends = 1
        /\ Len(last.wrote) <= 1
        /\ WasOpen /\ last.caught.type \notin {"BrokenPipeError", "OSError"}
                => last.wrote = <<Bytes(RequestLine(last.op, last.args))>>
        /\ last.ret = PyBool(/\ last.recv # <<>>
                             /\ LastReceived.valid
                             /\ IsTrimmedOK(LastReceived.text))

\* a click returned true on a response with whitespace around OK, and another
\* returned false on a Closed session
C5_Witness ==
    /\ last.op = "click_by_id"
    /\ last.ret = PyBool(TRUE)
    /\ LastReceived = Bytes(" OK\n")

\* the responses of SnapshotData that are JSON arrays of objects
WellFormedSnapshots ==
    {Bytes(Snapshot1), Bytes(Snapshot2 \o "\r\n"), Bytes(Snapshot3), Bytes("[]")}

\* C6: get_elements returns a sequence and never fails, and the sequence is
\* empty for every response that is not a JSON array of objects, for a
\* Closed session and after a transport failure.
C6_MalformedGivesEmpty ==
    last.op = "get_elements" =>
        /\ last.exc = NoExc
        /\ last.ret.t = "list"
        /\ (~WasOpen \/ last.caught # NoExc) => last.ret.items = <<>>
        /\ last.ret.items # <<>> =>
            /\ Len(last.recv) = 1
            /\ LastReceived \in WellFormedSnapshots

\* get_elements received an array whose second item is not an object
C6_Witness ==
    /\ last.op = "get_elements"
    /\ LastReceived = Bytes("[{\"text\":\"Login\"},7]")
    /\ last.ret = PyList(<<>>)

\* each Element field with its name on the wire and its default
WireFields ==
    {<<"resource_id", "resourceId", PyStr("")>>, <<"text", "text", PyStr("")>>,
     <<"content_desc", "contentDesc", PyStr("")>>, <<"class_name", "className", PyStr("")>>,
     <<"bounds", "bounds", PyStr("")>>, <<"depth", "depth", PyInt(0)>>,
     <<"is_clickable", "isClickable", PyBool(FALSE)>>,
     <<"is_scrollable", "isScrollable", PyBool(FALSE)>>,
     <<"is_focusable", "isFocusable", PyBool(FALSE)>>,
     <<"is_editable", "isEditable", PyBool(FALSE)>>,
     <<"package_name", "packageName", PyStr("")>>, <<"view_id", "viewId", PyStr("")>>,
     <<"x", "x", PyInt(0)>>, <<"y", "y", PyInt(0)>>}

\* the value of the JSON object obj under name, default when it has none
Lookup(obj, name, default) ==
    IF \E k \in 1..Len(obj.keys) : obj.keys[k] = name
    THEN obj.vals[CHOOSE k \in 1..Len(obj.keys) : obj.keys[k] = name]
    ELSE default

\* the JSON value of a response text that is an array of objects
IsArrayOfObjects(data) ==
    /\ data.ok
    /\ data.val.t = "list"
    /\ \A i \in 1..Len(data.val.items) : data.val.items[i].t = "dict"

\* C14: for a response that is a JSON array of objects, get_elements returns
\* one Element per item, in the order of the array, each field holding the
\* item's value under its wire name, or its default when the item has none.
C14_OneElementPerItem ==
    (/\ last.op = "get_elements"
     /\ last.recv # <<>>
     /\ LastReceived.valid
     /\ IsArrayOfObjects(json_loads(LastReceived.text))) =>
        LET items == json_loads(LastReceived.text).val.items
            ret   == last.ret.items
        IN  /\ Len(ret) = Len(items)
            /\ \A i \in 1..Len(items) :
                /\ DOMAIN ret[i] = {f[1] : f \in WireFields}
                /\ \A f \in WireFields : ret[i][f[1]] = Lookup(items[i], f[2], f[3])

\* get_elements decoded a snapshot of two items
C14_Witness ==
    /\ last.op = "get_elements"
    /\ LastReceived = Bytes(Snapshot3)
    /\ Len(last.ret.items) = 2
    /\ last.ret.items[1].class_name = PyStr("a.B")
    /\ last.ret.items[1].is_clickable = PyBool(TRUE)
    /\ last.ret.items[1].depth = PyInt(0)
    /\ last.ret.items[2].content_desc = PyStr("go")
    /\ last.ret.items[2].depth = PyInt(2)
    /\ last.ret.items[2].resource_id = PyStr("")

\* the last call was a send_command that wrote its request and whose read
\* returned text
Exchanged ==
    /\ last.op = "send_command"
    /\ last.caught = NoExc
    /\ last.reads = 1
    /\ LastReceived.valid

\* every character of text at the positions in range is whitespace
AllWs(text, range) == \A k \in range : SubSeq(text, k, k) \in PyWs

\* C18 as claimed: a successful send_command returns the response with its
\* trailing whitespace removed and its leading whitespace kept.
C18_TrailingOnly ==
    Exchanged =>
        LET text == LastReceived.text
            ret  == last.ret.s
        IN  /\ Len(ret) <= Len(text)
            /\ ret = SubSeq(text, 1, Len(ret))
            /\ AllWs(text, (Len(ret) + 1)..Len(text))
            /\ ret # "" => SubSeq(ret, Len(ret), Len(ret)) \notin PyWs

\* C18 as amended: a successful send_command returns the response with its
\* leading and its trailing whitespace removed and nothing else changed.
C18_BothEndsTrimmed ==
    Exchanged =>
        LET text == LastReceived.text
            ret  == last.ret.s
        IN  \E i \in 1..(Len(text) + 1) :
                /\ i + Len(ret) - 1 <= Len(text)
                /\ ret = SubSeq(text, i, i + Len(ret) - 1)
                /\ AllWs(text, 1..(i - 1))
                /\ AllWs(text, (i + Len(ret))..Len(text))
                /\ ret # "" => /\ SubSeq(ret, 1, 1) \notin PyWs
                               /\ SubSeq(ret, Len(ret), Len(ret)) \notin PyWs

\* send_command received a response with whitespace at both ends
C18_Witness ==
    /\ Exchanged
    /\ LastReceived = Bytes(" OK\n")
    /\ last.ret = PyStr("OK")

(***************************************************************************)
(* Properties of the locator functions                                     *)
(***************************************************************************)
\* a field value that is non-empty and not the literal "null"
Qualifies(v) == v # PyStr("") /\ v # PyStr("null")

\* the coordinates value of an Element
CoordsText(e) == PyStr("(" \o IntToStr(e.x.n) \o ", " \o IntToStr(e.y.n) \o ")")

\* C7: get_best_locator returns the candidate of the first of resource id, text,
\* content description, class name that is non-empty and not "null", with that
\* field as value, and the coordinates candidate built from (x, y) when none
\* qualifies; it never returns an empty result.
C7_BestIsFirstQualifying ==
    best.done =>
        LET e == selected_element
            b == best.val
        IN  /\ b # EmptyDict
            /\ CASE Qualifies(e.resource_id) ->
                        b.type = "resource-id" /\ b.value = e.resource_id
                 [] ~Qualifies(e.resource_id) /\ Qualifies(e.text) ->
                        b.type = "text" /\ b.value = e.text
                 [] ~Qualifies(e.resource_id) /\ ~Qualifies(e.text)
                        /\ Qualifies(e.content_desc) ->
                        b.type = "content-desc" /\ b.value = e.content_desc
                 [] ~Qualifies(e.resource_id) /\ ~Qualifies(e.text)
                        /\ ~Qualifies(e.content_desc) /\ Qualifies(e.class_name) ->
                        b.type = "className" /\ b.value = e.class_name
                 [] OTHER -> b.type = "coordinates" /\ b.value = CoordsText(e)

\* the best locator was computed for an Element whose id is "null" and whose
\* text qualifies
C7_Witness ==
    /\ best.done
    /\ selected_element.resource_id = PyStr("null")
    /\ selected_element.text = PyStr("a")
    /\ selected_element.class_name = PyStr("b")

\* the priority number of each kind
PriorityOf(type) ==
    CASE type = "resource-id" -> 1
      [] type = "text" -> 2
      [] type = "content-desc" -> 3
      [] type = "className" -> 4
      [] type = "coordinates" -> 5

\* C8: the list of get_all_locators is in strictly ascending priority of its
\* kinds (so no kind is repeated), and get_best_locator has the kind and value
\* of its first entry.
C8_AllSortedBestFirst ==
    all_locators.done =>
        LET l == all_locators.val
        IN  /\ l # <<>>
            /\ \A i \in 1..(Len(l) - 1) :
                    PriorityOf(l[i].type) < PriorityOf(l[i + 1].type)
            /\ best.done =>
                    /\ best.val # EmptyDict
                    /\ best.val.type = l[1].type
                    /\ best.val.value = l[1].value

\* both functions were applied to an Element with three qualifying fields
C8_Witness ==
    /\ all_locators.done
    /\ best.done
    /\ Len(all_locators.val) = 4
    /\ selected_element.resource_id = PyStr("")

\* the positions of the candidates of a kind in a candidate list
Positions(l, type) == {i \in 1..Len(l) : l[i].type = type}

\* C15: the candidate list of every Element is non-empty, holds exactly one
\* coordinates candidate, as its last entry, and holds the candidate of an
\* attribute exactly when that attribute is non-empty and not "null" (then
\* once, with the attribute as its value).
C15_CandidateList ==
    all_locators.done =>
        LET e == selected_element
            l == all_locators.val
            attr == [t \in {"resource-id", "text", "content-desc", "className"} |->
                        CASE t = "resource-id" -> e.resource_id
                          [] t = "text" -> e.text
                          [] t = "content-desc" -> e.content_desc
                          [] t = "className" -> e.class_name]
        IN  /\ l # <<>>
            /\ Positions(l, "coordinates") = {Len(l)}
            /\ l[Len(l)].value = CoordsText(e)
            /\ \A t \in DOMAIN attr :
                /\ Qualifies(attr[t]) <=> Positions(l, t) # {}
                /\ Cardinality(Positions(l, t)) <= 1
                /\ \A i \in Positions(l, t) : l[i].value = attr[t]
            /\ \A i \in 1..Len(l) : l[i].type \in DOMAIN attr \cup {"coordinates"}

\* the candidates of an Element with a "null" text, an empty description and
\* two attributes that qualify
C15_Witness ==
    /\ all_locators.done
    /\ selected_element.text = PyStr("null")
    /\ selected_element.content_desc = PyStr("")
    /\ Len(all_locators.val) = 3
    /\ all_locators.val[2].type = "className"

\* C11: an identifying field that holds "null" is treated as one that holds
\* "": the detail pane shows it as absent ("-"), as it shows an empty field,
\* and no locator offered has "" or "null" as its value.
C11_NullIsAbsent ==
    all_locators.done =>
        LET e == selected_element
        IN  /\ ~Qualifies(e.resource_id) => detail_text[1] = "Resource ID: -"
            /\ ~Qualifies(e.text) => detail_text[2] = "Text: -"
            /\ ~Qualifies(e.content_desc) => detail_text[3] = "Content Desc: -"
            /\ ~Qualifies(e.class_name) => detail_text[4] = "Class Name: -"
            /\ \A i \in 1..Len(all_locators.val) :
                    all_locators.val[i].value \notin {PyStr(""), PyStr("null")}

\* the Elements of depth d of a sequence of Elements, in their order
OfDepth(seq, d) == SelectSeq(seq, LAMBDA e : e.depth.n = d)

\* C20: update_element_tree emits every element of the snapshot exactly once,
\* in ascending order of depth and, within one depth, in the order of the
\* snapshot.
C20_GroupedByDepth ==
    last.op = "update_element_tree" =>
        LET emitted == [i \in 1..Len(element_tree) |-> element_tree[i].data]
        IN  /\ Len(emitted) = Len(elements)
            /\ \A i \in 1..(Len(emitted) - 1) :
                    emitted[i].depth.n <= emitted[i + 1].depth.n
            /\ \A d \in {elements[i].depth.n : i \in 1..Len(elements)}
                        \cup {emitted[i].depth.n : i \in 1..Len(emitted)} :
                    OfDepth(emitted, d) = OfDepth(elements, d)

\* the tree of a snapshot whose depths are 1, 0, 1: the element of depth 0
\* comes first and the two of depth 1 keep their order
C20_Witness ==
    /\ last.op = "update_element_tree"
    /\ Len(elements) = 3
    /\ elements[1].depth = PyInt(1) /\ elements[1].text = PyStr("b")
    /\ elements[2].depth = PyInt(0)
    /\ elements[3].depth = PyInt(1) /\ elements[3].text = PyStr("a")
    /\ element_tree[1].data = elements[2]
    /\ element_tree[2].data = elements[1]
    /\ element_tree[3].data = elements[3]

(***************************************************************************)
(* Properties of send_command under concurrent callers                     *)
(***************************************************************************)
\* the threads between the write and the read of their send_command
InFlight == {t \in Threads : threads[t].pc = "read"}

\* C9: at most one send_command is between its write and its read at any time,
\* and a caller that received a response received the one to its own request.
C9_MutualExclusion ==
    /\ Cardinality(InFlight) <= 1
    /\ \A t \in Threads :
            (threads[t].pc = "done" /\ threads[t].got # <<>>)
                => threads[t].got = <<threads[t].req>>

(***************************************************************************)
(* Properties of disconnect under a concurrent send_command                *)
(***************************************************************************)
\* the transport of the client is closed or gone
TransportClosed == socket = None \/ socks[socket] = "closed"

\* what send_command returns when it finds the transport closed or gone
\* after its connected check
CancelledResults ==
    {PyStr(ErrorString(SendAll(1, <<"closed">>, "ok").exc)),
     PyStr(ErrorString(SendAll(None, <<>>, "ok").exc)),
     PyStr(ErrorString(Recv(None, <<>>, <<>>, "eof").exc))}

\* thread record th is of a send_command that a disconnect cancelled
Cancelled(th) == th.pc = "done" /\ th.ret \in CancelledResults

\* C23: when disconnect runs on another thread while a send_command is in
\* flight (after its connected check, before or during its write or read),
\* the send_command returns a string, the error form when it found the
\* transport closed, and never raises; and once the cancelled send_command
\* and the disconnect have both finished the session is Closed and holds no
\* transport handle.
C23_CancelByDisconnect ==
    [][/\ \A t \in Threads :
            (threads[t].pc \in {"write", "read"} /\ threads'[t].pc = "done") =>
                /\ threads'[t].exc = NoExc
                /\ threads'[t].ret.t = "str"
                /\ TransportClosed => StartsWith(threads'[t].ret.s, "ERROR:")
       /\ \A t \in Threads, d \in Threads :
            (Cancelled(threads'[t]) /\ threads'[d].pc = "disconnected") =>
                (~connected' /\ socket' = None)]_vars

(***************************************************************************)
(* Properties of the main window                                           *)
(***************************************************************************)
\* the position of each attempt of click_test in its chain
ChainRank(kind) ==
    CASE kind = "id" -> 1
      [] kind = "text" -> 2
      [] kind = "content-desc" -> 3

\* the field of element e an attempt of each kind clicks by
ChainField(e, kind) ==
    CASE kind = "id" -> e.resource_id
      [] kind = "text" -> e.text
      [] kind = "content-desc" -> e.content_desc

\* the request line of an attempt of each kind
ChainLine(kind, value) ==
    CASE kind = "id" -> "CLICK_BY_ID:" \o value.s \o "\n"
      [] kind = "text" -> "CLICK_BY_TEXT:" \o value.s \o "\n"
      [] kind = "content-desc" -> "CLICK_BY_CONTENT_DESC:" \o value.s \o "\n"

\* C10: click_test attempts clicks in the order id, text, content description,
\* only for fields that are non-empty and not "null", makes no attempt after
\* one that succeeded, makes every attempt its chain reaches, and writes no
\* request other than CLICK_BY_ID, CLICK_BY_TEXT and CLICK_BY_CONTENT_DESC.
C10_ClickChain ==
    last.op = "click_test" =>
        LET e == last.args[1]
            log == last.log
        IN  /\ last.exc = NoExc
            /\ \A i \in 1..Len(log) :
                /\ Qualifies(ChainField(e, log[i].kind))
                /\ log[i].value = ChainField(e, log[i].kind)
                /\ \A w \in 1..Len(log[i].wrote) :
                        log[i].wrote[w] = Bytes(ChainLine(log[i].kind, log[i].value))
                /\ Len(log[i].wrote) <= 1
                /\ log[i].ok <=> /\ log[i].recv # <<>>
                                 /\ JoinChunks(log[i].recv).valid
                                 /\ IsTrimmedOK(JoinChunks(log[i].recv).text)
                /\ i < Len(log) =>
                        /\ ~log[i].ok
                        /\ ChainRank(log[i].kind) < ChainRank(log[i + 1].kind)
            /\ \A k \in {"id", "text", "content-desc"} :
                    Qualifies(ChainField(e, k)) =>
                        \/ \E i \in 1..Len(log) : log[i].kind = k
                        \/ \E i \in 1..Len(log) :
                                log[i].ok /\ ChainRank(log[i].kind) < ChainRank(k)
            /\ \A w \in 1..Len(last.wrote) :
                    ~StartsWith(last.wrote[w].text, "CLICK_BY_COORDS")
            /\ Len(last.wrote) <= Len(log)

\* click_test failed by id, succeeded by text and left the content
\* description untried
C10_Witness ==
    /\ last.op = "click_test"
    /\ Len(last.log) = 2
    /\ last.log[1].kind = "id"
    /\ ~last.log[1].ok
    /\ last.log[2].ok
    /\ Qualifies(last.args[1].content_desc)

====
